---------------------------- MODULE Spec2Model ----------------------------
(***************************************************************************)
(* The two build verifiers of the repository:                              *)
(*   - the deployment checker (src/unnamed/part_004): checkEnvironment,    *)
(*     checkRequiredFiles, checkDependencies, checkBuildOutput, main;      *)
(*   - the health check (src/scripts/health-check.js): checkBuildOutput.   *)
(*                                                                         *)
(* A run is one process.  Its state is the position in the script (pc),    *)
(* the loop index, the locals of checkBuildOutput, the lines printed so    *)
(* far, the filesystem calls made so far and the exit status.              *)
(*                                                                         *)
(* The filesystem and the Node runtime are the environment.  The scripts   *)
(* never write to them.  Each part of the environment (the project files,  *)
(* the content of package.json, the output directory, the Node version)    *)
(* is drawn when a run first reads it, is recorded in `known`, and keeps   *)
(* that value from then on, across runs too.  process.memoryUsage() is     *)
(* read anew by every run.                                                 *)
(***************************************************************************)
EXTENDS Integers, Sequences, FiniteSets

VARIABLES
    script,      \* which script this process runs: "deploy" or "health"
    cfg,         \* the object bound to const config (deployment checker)
    pc,          \* position in the script
    i,           \* index of the running for-of loop
    files,       \* const files = fs.readdirSync(...)
    totalSize,   \* let totalSize
    fileCount,   \* let fileCount (deployment checker only)
    out,         \* the lines printed so far (console.log / warn / error)
    probes,      \* the filesystem calls made so far
    exitCode,    \* the exit status once pc = "exited", -1 before
    known,       \* the parts of the environment read so far
    nodeMajor,   \* major number of process.version
    present,     \* the required files that exist
    pkg,         \* content of package.json
    dist,        \* the output directory docs/.vuepress/dist
    runs,        \* number of the current run on this tree: 1 or 2
    prevScript,  \* script, output and exit status of the first run
    prevOut,
    prevExit

runVars == <<pc, i, files, totalSize, fileCount, out, probes, exitCode>>
envVars == <<known, nodeMajor, present, pkg, dist>>
prevVars == <<runs, prevScript, prevOut, prevExit>>
vars == <<script, cfg, runVars, envVars, prevVars>>

---------------------------------------------------------------------------
(* Bounds of the model *)

\* number of entries of the output directory besides index.html, assets
\* and .vuepress
MaxExtra == 1

---------------------------------------------------------------------------
(* The configuration: const config, part_004 lines 6-16 *)

requiredFiles ==
    <<"docs/.vuepress/config.js", "docs/README.md", "package.json", "pnpm-lock.yaml">>

buildOutput == "docs/.vuepress/dist"

minBuildSize == 1024

maxBuildSize == 50 * 1024 * 1024

config ==
    [requiredFiles |-> requiredFiles, buildOutput |-> buildOutput,
     minBuildSize |-> minBuildSize, maxBuildSize |-> maxBuildSize]

\* const essentialBuildFiles, part_004 line 86
essentialBuildFiles == <<"index.html", "assets">>

\* const requiredDeps, part_004 line 105
requiredDeps == <<"vuepress", "@vuepress/bundler-vite", "vue">>

\* const distPath, health-check.js line 6
distPath == "docs/.vuepress/dist"

\* const essentialFiles, health-check.js lines 18-22: a relative path is the
\* string as written, its components and whether it ends in a slash
essentialFiles ==
    <<[text |-> "index.html", parts |-> <<"index.html">>, slash |-> FALSE],
      [text |-> "assets/", parts |-> <<"assets">>, slash |-> TRUE],
      [text |-> ".vuepress/dist/", parts |-> <<".vuepress", "dist">>, slash |-> TRUE]>>

\* the threshold written out in health-check.js line 48
healthMinSize == 1024

MiB == 1024 * 1024

Range(s) == {s[k] : k \in 1..Len(s)}

---------------------------------------------------------------------------
(* The environment the scripts read *)

Scripts == {"deploy", "health"}

\* process.version: majors below, at and above 20
NodeMajors == {18, 20, 22}

\* process.memoryUsage().heapUsed, in bytes
HeapUsedSamples == {4 * MiB, 5 * MiB + 600000}

\* which of the required files exist
ProjectTrees == SUBSET Range(requiredFiles)

\* deps[dep] for a dependency: no entry, an empty string, a version range
DepValues == {"undefined", "", "^2.0.0"}

NoDeps == [d \in Range(requiredDeps) |-> "undefined"]

\* a file that cannot be read as JSON
Unparsable == [parses |-> FALSE, devDependencies |-> NoDeps, dependencies |-> NoDeps]

\* the required packages that devDependencies lacks, declared under
\* dependencies instead
ProdInstead(dev) ==
    [d \in Range(requiredDeps) |-> IF dev[d] = "undefined" THEN "^2.0.0" ELSE "undefined"]

PackageFiles ==
    {Unparsable} \cup
    {[parses |-> TRUE, devDependencies |-> dev, dependencies |-> prod] :
        dev \in [Range(requiredDeps) -> DepValues], prod \in {NoDeps}} \cup
    {[parses |-> TRUE, devDependencies |-> dev, dependencies |-> ProdInstead(dev)] :
        dev \in [Range(requiredDeps) -> DepValues]}

\* sizes of the regular files of the output directory
FileSizes == {minBuildSize - 1, minBuildSize, maxBuildSize, maxBuildSize + 1}

\* bytes held by the files inside a subdirectory
NestedBytes == 4 * maxBuildSize

ExtraPool == <<"404.html", "logo.png", "robots.txt">>

ExtraNames == {ExtraPool[k] : k \in 1..MaxExtra}

EntryNames == {"index.html", "assets", ".vuepress"} \cup ExtraNames

\* the order in which readdirSync lists the names
ListingOrder ==
    <<".vuepress">> \o SubSeq(ExtraPool, 1, MaxExtra) \o <<"assets", "index.html">>

Absent == [kind |-> "absent", size |-> 0, nested |-> 0, children |-> {}]
RegularFile(n) == [kind |-> "file", size |-> n, nested |-> 0, children |-> {}]
Directory(c) == [kind |-> "dir", size |-> 4096, nested |-> NestedBytes, children |-> c]
\* a symbolic link whose target does not exist
Dangling == [kind |-> "dangling", size |-> 0, nested |-> 0, children |-> {}]

EntriesOf(name) ==
    CASE name = "index.html" ->
           {Absent, Dangling} \cup {RegularFile(n) : n \in FileSizes}
      [] name = "assets" ->
           {Absent, Directory({}), RegularFile(minBuildSize)}
      [] name = ".vuepress" ->
           {Absent, Directory({}), Directory({"dist"})}
      [] OTHER ->
           {Absent, Dangling, Directory({})} \cup {RegularFile(n) : n \in FileSizes}

NoEntries == [n \in EntryNames |-> Absent]

OutputDirs ==
    {[kind |-> "absent", entries |-> NoEntries],
     [kind |-> "file", entries |-> NoEntries]} \cup
    {[kind |-> "dir", entries |-> e] :
        e \in {f \in [EntryNames -> UNION {EntriesOf(n) : n \in EntryNames}] :
                 \A n \in EntryNames : f[n] \in EntriesOf(n)}}


---------------------------------------------------------------------------
(* What the scripts compute *)

\* one printed line: the console method ("log", "warn" or "error"), the
\* message, and the file name or the number the template puts into it
Line(level, text, name, num) ==
    [level |-> level, text |-> text, name |-> name, num |-> num]

Log(text) == Line("log", text, "", 0)
LogName(text, name) == Line("log", text, name, 0)
LogNum(text, num) == Line("log", text, "", num)
Warn(text) == Line("warn", text, "", 0)
WarnNum(text, num) == Line("warn", text, "", num)
Error(text) == Line("error", text, "", 0)
ErrorName(text, name) == Line("error", text, name, 0)
ErrorNum(text, num) == Line("error", text, "", num)

\* one filesystem call: the function, the path it is given (its components,
\* and whether it ends in a slash) and how it ended: for existsSync the
\* value returned, for the others whether it returned rather than threw
Call(op, path, slash, ok) == [op |-> op, path |-> path, slash |-> slash, ok |-> ok]

\* (bytes / 1024 / 1024).toFixed(2), as a number of hundredths of a MiB
ToFixed2MB(bytes) ==
    (bytes \div MiB) * 100 + ((bytes % MiB) * 200 + MiB) \div (2 * MiB)

\* Math.round(bytes / 1024 / 1024)
RoundMB(bytes) ==
    (bytes \div MiB) + (IF 2 * (bytes % MiB) >= MiB THEN 1 ELSE 0)

\* the decimal digits of a positive number, most significant first
RECURSIVE Digits(_)
Digits(n) == IF n < 10 THEN <<n>> ELSE Append(Digits(n \div 10), n % 10)

\* nodeVersion.startsWith('v20'), for the version string "v<major>.<minor>.<patch>"
StartsWithV20(major) ==
    LET d == Digits(major) IN Len(d) >= 2 /\ d[1] = 2 /\ d[2] = 0

\* !deps[dep]: undefined and the empty string are falsy
Falsy(v) == v \in {"undefined", ""}

\* fs.existsSync follows links: a link without a target does not exist
EntryExists(e) == e.kind \in {"file", "dir"}

\* fs.existsSync(path.join(<output directory>, rel)): path.join keeps a
\* trailing slash, and a path with a trailing slash names a directory only
\* (POSIX path resolution: ENOTDIR on a regular file)
PathExists(d, rel) ==
    /\ d.kind = "dir"
    /\ LET e == d.entries[rel.parts[1]] IN
         IF Len(rel.parts) = 1
           THEN EntryExists(e) /\ (rel.slash => e.kind = "dir")
           ELSE e.kind = "dir" /\ rel.parts[2] \in e.children

\* a relative path of one component, written without a slash
Plain(file) == [text |-> file, parts |-> <<file>>, slash |-> FALSE]

\* fs.readdirSync: the names of the immediate entries
Listing(d) == SelectSeq(ListingOrder, LAMBDA n : d.entries[n].kind # "absent")

\* stats.isFile()
IsFile(e) == e.kind = "file"

---------------------------------------------------------------------------
(* Steps shared by the actions *)

Emit(lines) == out' = out \o lines

Probe(calls) == probes' = probes \o calls

\* process.exit(code) after printing lines
Exit(code, lines) ==
    /\ pc' = "exited"
    /\ exitCode' = code
    /\ Emit(lines)

Goto(label) == pc' = label /\ exitCode' = exitCode

\* the environment is drawn when first read and fixed afterwards
ReadNode ==
    /\ IF "node" \in known THEN nodeMajor' = nodeMajor ELSE nodeMajor' \in NodeMajors
    /\ known' = known \cup {"node"}
    /\ UNCHANGED <<present, pkg, dist>>

ReadProject ==
    /\ IF "project" \in known THEN present' = present ELSE present' \in ProjectTrees
    /\ known' = known \cup {"project"}
    /\ UNCHANGED <<nodeMajor, pkg, dist>>

ReadPackage ==
    /\ IF "package" \in known THEN pkg' = pkg ELSE pkg' \in PackageFiles
    /\ known' = known \cup {"package"}
    /\ UNCHANGED <<nodeMajor, present, dist>>

ReadDist ==
    /\ IF "dist" \in known THEN dist' = dist ELSE dist' \in OutputDirs
    /\ known' = known \cup {"dist"}
    /\ UNCHANGED <<nodeMajor, present, pkg>>

locals == <<i, files, totalSize, fileCount>>

---------------------------------------------------------------------------
(* The deployment checker, part_004 *)

\* main, line 122
MainStart ==
    /\ script = "deploy" /\ pc = "main"
    /\ Emit(<<Log("Starting deployment checks")>>)
    /\ Goto("checkEnvironment")
    /\ UNCHANGED <<script, cfg, locals, probes, envVars, prevVars>>

\* CheckEnvironment with a warning that depends on the heap in use
CheckEnvironment_HeapWarning ==
    /\ pc = "checkEnvironment"
    /\ ReadNode
    /\ \E heapUsed \in HeapUsedSamples :
         Emit(<<Log("Checking environment"), LogNum("Node.js version", nodeMajor')>>
              \o (IF ~StartsWithV20(nodeMajor')
                    THEN <<Warn("Node.js 20+ recommended")>> ELSE <<>>)
              \o <<LogNum("Memory usage MB", RoundMB(heapUsed))>>
              \o (IF RoundMB(heapUsed) > 5 THEN <<Warn("High memory usage")>> ELSE <<>>)
              \o <<Log("Environment check passed"), Log("")>>)
    /\ Goto("checkRequiredFiles")
    /\ UNCHANGED <<script, cfg, locals, probes, prevVars>>

\* checkEnvironment, lines 18-34, and main line 126
CheckEnvironment ==
    /\ pc = "checkEnvironment"
    /\ ReadNode
    /\ \E heapUsed \in HeapUsedSamples :
         Emit(<<Log("Checking environment"), LogNum("Node.js version", nodeMajor')>>
              \o (IF ~StartsWithV20(nodeMajor')
                    THEN <<Warn("Node.js 20+ recommended")>> ELSE <<>>)
              \o <<LogNum("Memory usage MB", RoundMB(heapUsed)),
                   Log("Environment check passed"), Log("")>>)
    /\ Goto("checkRequiredFiles")
    /\ UNCHANGED <<script, cfg, locals, probes, prevVars>>

\* checkRequiredFiles, line 37
CheckRequiredFilesBegin ==
    /\ pc = "checkRequiredFiles"
    /\ Emit(<<Log("Checking required files")>>)
    /\ i' = 1
    /\ Goto("requiredFilesLoop")
    /\ UNCHANGED <<script, cfg, files, totalSize, fileCount, probes, envVars, prevVars>>

\* CheckRequiredFile without the process.exit(1)
CheckRequiredFile_NoExit ==
    /\ pc = "requiredFilesLoop" /\ i <= Len(cfg.requiredFiles)
    /\ ReadProject
    /\ LET file == cfg.requiredFiles[i] IN
         /\ Probe(<<Call("existsSync", <<file>>, FALSE, file \in present')>>)
         /\ Emit(IF file \notin present'
                   THEN <<ErrorName("Required file missing", file)>>
                   ELSE <<LogName("Found", file)>>)
         /\ i' = i + 1
         /\ Goto("requiredFilesLoop")
    /\ UNCHANGED <<script, cfg, files, totalSize, fileCount, prevVars>>

\* CheckRequiredFile taking the files off the configured list
\* (config.requiredFiles.shift())
CheckRequiredFile_Shift ==
    /\ pc = "requiredFilesLoop" /\ i <= Len(cfg.requiredFiles)
    /\ ReadProject
    /\ LET file == Head(cfg.requiredFiles) IN
         /\ Probe(<<Call("existsSync", <<file>>, FALSE, file \in present')>>)
         /\ cfg' = [cfg EXCEPT !.requiredFiles = Tail(@)]
         /\ IF file \notin present'
              THEN /\ Exit(1, <<ErrorName("Required file missing", file)>>)
                   /\ i' = i
              ELSE /\ Emit(<<LogName("Found", file)>>)
                   /\ i' = i + 1
                   /\ Goto("requiredFilesLoop")
    /\ UNCHANGED <<script, files, totalSize, fileCount, prevVars>>

\* CheckRequiredFile testing a missing file a second time before giving up
CheckRequiredFile_Retry ==
    /\ pc = "requiredFilesLoop" /\ i <= Len(cfg.requiredFiles)
    /\ ReadProject
    /\ LET file == cfg.requiredFiles[i] IN
         IF file \notin present'
           THEN /\ Probe(<<Call("existsSync", <<file>>, FALSE, FALSE),
                           Call("existsSync", <<file>>, FALSE, FALSE)>>)
                /\ Exit(1, <<ErrorName("Required file missing", file)>>)
                /\ i' = i
           ELSE /\ Probe(<<Call("existsSync", <<file>>, FALSE, TRUE)>>)
                /\ Emit(<<LogName("Found", file)>>)
                /\ i' = i + 1
                /\ Goto("requiredFilesLoop")
    /\ UNCHANGED <<script, cfg, files, totalSize, fileCount, prevVars>>

\* CheckRequiredFile waiting for a missing file to appear: it tests the file
\* again and again instead of giving up
CheckRequiredFile_WaitForFile ==
    /\ pc = "requiredFilesLoop" /\ i <= Len(cfg.requiredFiles)
    /\ ReadProject
    /\ LET file == cfg.requiredFiles[i]
           call == Call("existsSync", <<file>>, FALSE, file \in present')
       IN  IF file \notin present'
             THEN /\ probes' = IF probes # <<>> /\ probes[Len(probes)] = call
                                 THEN probes ELSE probes \o <<call>>
                  /\ Emit(<<>>)
                  /\ i' = i
                  /\ Goto("requiredFilesLoop")
             ELSE /\ Probe(<<call>>)
                  /\ Emit(<<LogName("Found", file)>>)
                  /\ i' = i + 1
                  /\ Goto("requiredFilesLoop")
    /\ UNCHANGED <<script, cfg, files, totalSize, fileCount, prevVars>>

\* one turn of the loop of checkRequiredFiles, lines 39-45
CheckRequiredFile ==
    /\ pc = "requiredFilesLoop" /\ i <= Len(cfg.requiredFiles)
    /\ ReadProject
    /\ LET file == cfg.requiredFiles[i] IN
         /\ Probe(<<Call("existsSync", <<file>>, FALSE, file \in present')>>)
         /\ IF file \notin present'
              THEN /\ Exit(1, <<ErrorName("Required file missing", file)>>)
                   /\ i' = i
              ELSE /\ Emit(<<LogName("Found", file)>>)
                   /\ i' = i + 1
                   /\ Goto("requiredFilesLoop")
    /\ UNCHANGED <<script, cfg, files, totalSize, fileCount, prevVars>>

\* CheckRequiredFilesEnd with main calling checkBuildOutput next
CheckRequiredFilesEnd_BuildOutputNext ==
    /\ pc = "requiredFilesLoop" /\ i > Len(cfg.requiredFiles)
    /\ Emit(<<Log("All required files present"), Log("")>>)
    /\ Goto("checkBuildOutput")
    /\ UNCHANGED <<script, cfg, locals, probes, envVars, prevVars>>

\* the end of checkRequiredFiles, line 47, and main line 129
CheckRequiredFilesEnd ==
    /\ pc = "requiredFilesLoop" /\ i > Len(cfg.requiredFiles)
    /\ Emit(<<Log("All required files present"), Log("")>>)
    /\ Goto("checkDependencies")
    /\ UNCHANGED <<script, cfg, locals, probes, envVars, prevVars>>

\* checkDependencies, lines 99-105 and the catch of lines 115-118
CheckDependenciesBegin ==
    /\ pc = "checkDependencies"
    /\ ReadPackage
    /\ Probe(<<Call("readFileSync", <<"package.json">>, FALSE, pkg'.parses)>>)
    /\ IF ~pkg'.parses
         THEN /\ Exit(1, <<Log("Checking dependencies"),
                           Error("Error reading package.json")>>)
              /\ i' = i
         ELSE /\ Emit(<<Log("Checking dependencies")>>)
              /\ i' = 1
              /\ Goto("dependenciesLoop")
    /\ UNCHANGED <<script, cfg, files, totalSize, fileCount, prevVars>>

\* CheckDependency without the console.error before process.exit(1)
CheckDependency_Silent ==
    /\ pc = "dependenciesLoop" /\ i <= Len(requiredDeps)
    /\ LET dep == requiredDeps[i]
           deps == pkg.devDependencies
       IN  IF Falsy(deps[dep])
             THEN /\ Exit(1, <<>>)
                  /\ i' = i
             ELSE /\ Emit(<<LogName("Found dependency", dep)>>)
                  /\ i' = i + 1
                  /\ Goto("dependenciesLoop")
    /\ UNCHANGED <<script, cfg, files, totalSize, fileCount, probes, envVars, prevVars>>

\* CheckDependency looking a package up under dependencies as well
CheckDependency_ProdToo ==
    /\ pc = "dependenciesLoop" /\ i <= Len(requiredDeps)
    /\ LET dep == requiredDeps[i]
           deps == [d \in Range(requiredDeps) |->
                       IF Falsy(pkg.devDependencies[d])
                         THEN pkg.dependencies[d] ELSE pkg.devDependencies[d]]
       IN  IF Falsy(deps[dep])
             THEN /\ Exit(1, <<ErrorName("Required dependency missing", dep)>>)
                  /\ i' = i
             ELSE /\ Emit(<<LogName("Found dependency", dep)>>)
                  /\ i' = i + 1
                  /\ Goto("dependenciesLoop")
    /\ UNCHANGED <<script, cfg, files, totalSize, fileCount, probes, envVars, prevVars>>

\* one turn of the loop of checkDependencies, lines 106-112
CheckDependency ==
    /\ pc = "dependenciesLoop" /\ i <= Len(requiredDeps)
    /\ LET dep == requiredDeps[i]
           deps == pkg.devDependencies
       IN  IF Falsy(deps[dep])
             THEN /\ Exit(1, <<ErrorName("Required dependency missing", dep)>>)
                  /\ i' = i
             ELSE /\ Emit(<<LogName("Found dependency", dep)>>)
                  /\ i' = i + 1
                  /\ Goto("dependenciesLoop")
    /\ UNCHANGED <<script, cfg, files, totalSize, fileCount, probes, envVars, prevVars>>

\* the end of checkDependencies, line 114, and main line 132
CheckDependenciesEnd ==
    /\ pc = "dependenciesLoop" /\ i > Len(requiredDeps)
    /\ Emit(<<Log("Dependencies check passed"), Log("")>>)
    /\ Goto("checkBuildOutput")
    /\ UNCHANGED <<script, cfg, locals, probes, envVars, prevVars>>

\* CheckBuildOutputBegin without the process.exit(1)
CheckBuildOutputBegin_NoExit ==
    /\ pc = "checkBuildOutput"
    /\ ReadDist
    /\ Probe(<<Call("existsSync", <<cfg.buildOutput>>, FALSE, dist'.kind # "absent")>>)
    /\ Emit(<<Log("Checking build output")>>
            \o (IF dist'.kind = "absent"
                  THEN <<ErrorName("Build output not found", cfg.buildOutput)>>
                  ELSE <<>>))
    /\ Goto("readdir")
    /\ UNCHANGED <<script, cfg, locals, prevVars>>

\* checkBuildOutput, lines 51-56
CheckBuildOutputBegin ==
    /\ pc = "checkBuildOutput"
    /\ ReadDist
    /\ Probe(<<Call("existsSync", <<cfg.buildOutput>>, FALSE, dist'.kind # "absent")>>)
    /\ IF dist'.kind = "absent"
         THEN Exit(1, <<Log("Checking build output"),
                        ErrorName("Build output not found", cfg.buildOutput)>>)
         ELSE /\ Emit(<<Log("Checking build output")>>)
              /\ Goto("readdir")
    /\ UNCHANGED <<script, cfg, locals, prevVars>>

\* checkBuildOutput, lines 58-60; readdirSync throws on a path that is no
\* directory, and main catches it, lines 138-141
ReadDir ==
    /\ pc = "readdir"
    /\ Probe(<<Call("readdirSync", <<cfg.buildOutput>>, FALSE, dist.kind = "dir")>>)
    /\ IF dist.kind # "dir"
         THEN /\ Exit(1, <<Error("Deployment check failed")>>)
              /\ UNCHANGED locals
         ELSE /\ files' = Listing(dist)
              /\ totalSize' = 0
              /\ fileCount' = 0
              /\ i' = 1
              /\ Emit(<<>>)
              /\ Goto("statLoop")
    /\ UNCHANGED <<script, cfg, envVars, prevVars>>

\* StatEntry with an entry that cannot be stat-ed skipped
StatEntry_SkipBroken ==
    /\ pc = "statLoop" /\ i <= Len(files)
    /\ LET file == files[i]
           stats == dist.entries[file]
       IN  /\ Probe(<<Call("statSync", <<cfg.buildOutput, file>>, FALSE, stats.kind # "dangling")>>)
           /\ IF IsFile(stats)
                THEN /\ totalSize' = totalSize + stats.size
                     /\ fileCount' = fileCount + 1
                ELSE UNCHANGED <<totalSize, fileCount>>
           /\ i' = i + 1
           /\ Emit(<<>>)
           /\ Goto("statLoop")
    /\ UNCHANGED <<script, cfg, files, envVars, prevVars>>

\* one turn of the loop of checkBuildOutput, lines 62-70; statSync throws on
\* a link without a target, and main catches it, lines 138-141
StatEntry ==
    /\ pc = "statLoop" /\ i <= Len(files)
    /\ LET file == files[i]
           stats == dist.entries[file]
       IN  /\ Probe(<<Call("statSync", <<cfg.buildOutput, file>>, FALSE, stats.kind # "dangling")>>)
           /\ IF stats.kind = "dangling"
                THEN /\ Exit(1, <<Error("Deployment check failed")>>)
                     /\ UNCHANGED <<i, totalSize, fileCount>>
                ELSE /\ IF IsFile(stats)
                          THEN /\ totalSize' = totalSize + stats.size
                               /\ fileCount' = fileCount + 1
                          ELSE UNCHANGED <<totalSize, fileCount>>
                     /\ i' = i + 1
                     /\ Emit(<<>>)
                     /\ Goto("statLoop")
    /\ UNCHANGED <<script, cfg, files, envVars, prevVars>>

\* CheckSizeBounds with the minimum only warned about
CheckSizeBounds_WarnOnly ==
    /\ pc = "statLoop" /\ i > Len(files)
    /\ Emit(<<Log("Build statistics"), LogNum("Files", fileCount),
              LogNum("Size MB", ToFixed2MB(totalSize))>>
            \o (IF totalSize < cfg.minBuildSize
                  THEN <<WarnNum("Build output too small", totalSize)>> ELSE <<>>)
            \o (IF totalSize > cfg.maxBuildSize
                  THEN <<WarnNum("Build output very large", ToFixed2MB(totalSize))>>
                  ELSE <<>>))
    /\ i' = 1
    /\ Goto("essentialLoop")
    /\ UNCHANGED <<script, cfg, files, totalSize, fileCount, probes, envVars, prevVars>>

\* CheckSizeBounds with the maximum fatal too
CheckSizeBounds_MaxFatal ==
    /\ pc = "statLoop" /\ i > Len(files)
    /\ LET stats == <<Log("Build statistics"), LogNum("Files", fileCount),
                      LogNum("Size MB", ToFixed2MB(totalSize))>>
       IN  IF totalSize < cfg.minBuildSize
             THEN /\ Exit(1, stats \o <<ErrorNum("Build output too small", totalSize)>>)
                  /\ i' = i
             ELSE IF totalSize > cfg.maxBuildSize
               THEN /\ Exit(1, stats \o <<ErrorNum("Build output very large",
                                                    ToFixed2MB(totalSize))>>)
                    /\ i' = i
               ELSE /\ Emit(stats)
                    /\ i' = 1
                    /\ Goto("essentialLoop")
    /\ UNCHANGED <<script, cfg, files, totalSize, fileCount, probes, envVars, prevVars>>

\* CheckSizeBounds with both comparisons inclusive
CheckSizeBounds_Inclusive ==
    /\ pc = "statLoop" /\ i > Len(files)
    /\ LET stats == <<Log("Build statistics"), LogNum("Files", fileCount),
                      LogNum("Size MB", ToFixed2MB(totalSize))>>
       IN  IF totalSize <= cfg.minBuildSize
             THEN /\ Exit(1, stats \o <<ErrorNum("Build output too small", totalSize)>>)
                  /\ i' = i
             ELSE /\ Emit(stats \o
                          (IF totalSize >= cfg.maxBuildSize
                             THEN <<WarnNum("Build output very large", ToFixed2MB(totalSize))>>
                             ELSE <<>>))
                  /\ i' = 1
                  /\ Goto("essentialLoop")
    /\ UNCHANGED <<script, cfg, files, totalSize, fileCount, probes, envVars, prevVars>>

\* CheckSizeBounds with the essential entries tested before the minimum
CheckSizeBounds_EssentialsFirst ==
    /\ pc = "statLoop" /\ i > Len(files)
    /\ LET stats == <<Log("Build statistics"), LogNum("Files", fileCount),
                      LogNum("Size MB", ToFixed2MB(totalSize))>>
           lacking == {k \in 1..Len(essentialBuildFiles) :
                          ~PathExists(dist, Plain(essentialBuildFiles[k]))}
       IN  IF lacking # {}
             THEN /\ Exit(1, stats \o <<ErrorName("Essential build file missing",
                          essentialBuildFiles[CHOOSE k \in lacking :
                                                \A j \in lacking : k <= j])>>)
                  /\ i' = i
             ELSE IF totalSize < cfg.minBuildSize
               THEN /\ Exit(1, stats \o <<ErrorNum("Build output too small", totalSize)>>)
                    /\ i' = i
               ELSE /\ Emit(stats \o
                            (IF totalSize > cfg.maxBuildSize
                               THEN <<WarnNum("Build output very large",
                                              ToFixed2MB(totalSize))>>
                               ELSE <<>>))
                    /\ i' = 1
                    /\ Goto("essentialLoop")
    /\ UNCHANGED <<script, cfg, files, totalSize, fileCount, probes, envVars, prevVars>>

\* CheckSizeBounds returning from checkBuildOutput after the warning
CheckSizeBounds_WarnReturns ==
    /\ pc = "statLoop" /\ i > Len(files)
    /\ LET stats == <<Log("Build statistics"), LogNum("Files", fileCount),
                      LogNum("Size MB", ToFixed2MB(totalSize))>>
       IN  IF totalSize < cfg.minBuildSize
             THEN /\ Exit(1, stats \o <<ErrorNum("Build output too small", totalSize)>>)
                  /\ i' = i
             ELSE IF totalSize > cfg.maxBuildSize
               THEN /\ Emit(stats \o <<WarnNum("Build output very large",
                                                ToFixed2MB(totalSize))>>)
                    /\ i' = Len(essentialBuildFiles) + 1
                    /\ Goto("essentialLoop")
               ELSE /\ Emit(stats)
                    /\ i' = 1
                    /\ Goto("essentialLoop")
    /\ UNCHANGED <<script, cfg, files, totalSize, fileCount, probes, envVars, prevVars>>

\* checkBuildOutput, lines 72-83: the statistics and the two size bounds
CheckSizeBounds ==
    /\ pc = "statLoop" /\ i > Len(files)
    /\ LET stats == <<Log("Build statistics"), LogNum("Files", fileCount),
                      LogNum("Size MB", ToFixed2MB(totalSize))>>
       IN  IF totalSize < cfg.minBuildSize
             THEN /\ Exit(1, stats \o <<ErrorNum("Build output too small", totalSize)>>)
                  /\ i' = i
             ELSE /\ Emit(stats \o
                          (IF totalSize > cfg.maxBuildSize
                             THEN <<WarnNum("Build output very large", ToFixed2MB(totalSize))>>
                             ELSE <<>>))
                  /\ i' = 1
                  /\ Goto("essentialLoop")
    /\ UNCHANGED <<script, cfg, files, totalSize, fileCount, probes, envVars, prevVars>>

\* CheckEssentialBuildFile without the process.exit(1)
CheckEssentialBuildFile_NoExit ==
    /\ pc = "essentialLoop" /\ i <= Len(essentialBuildFiles)
    /\ LET file == essentialBuildFiles[i] IN
         /\ Probe(<<Call("existsSync", <<cfg.buildOutput, file>>, FALSE,
                         PathExists(dist, Plain(file)))>>)
         /\ Emit(IF ~PathExists(dist, Plain(file))
                   THEN <<ErrorName("Essential build file missing", file)>> ELSE <<>>)
         /\ i' = i + 1
         /\ Goto("essentialLoop")
    /\ UNCHANGED <<script, cfg, files, totalSize, fileCount, envVars, prevVars>>

\* one turn of the loop over essentialBuildFiles, lines 87-93
CheckEssentialBuildFile ==
    /\ pc = "essentialLoop" /\ i <= Len(essentialBuildFiles)
    /\ LET file == essentialBuildFiles[i] IN
         /\ Probe(<<Call("existsSync", <<cfg.buildOutput, file>>, FALSE,
                      PathExists(dist, Plain(file)))>>)
         /\ IF ~PathExists(dist, Plain(file))
              THEN /\ Exit(1, <<ErrorName("Essential build file missing", file)>>)
                   /\ i' = i
              ELSE /\ i' = i + 1
                   /\ Emit(<<>>)
                   /\ Goto("essentialLoop")
    /\ UNCHANGED <<script, cfg, files, totalSize, fileCount, envVars, prevVars>>

\* MainEnd leaving a marker file in the output directory
MainEnd_WritesMarker ==
    /\ pc = "essentialLoop" /\ i > Len(essentialBuildFiles)
    /\ Exit(0, <<Log("Build output verified"), Log(""), Log("All checks passed")>>)
    /\ dist' = [dist EXCEPT !.entries[ExtraPool[1]] = RegularFile(minBuildSize)]
    /\ UNCHANGED <<script, cfg, locals, probes, known, nodeMajor, present, pkg, prevVars>>

\* the end of checkBuildOutput, line 95, and of main, lines 135-137: the
\* script runs out and the process ends with status 0
MainEnd ==
    /\ pc = "essentialLoop" /\ i > Len(essentialBuildFiles)
    /\ Exit(0, <<Log("Build output verified"), Log(""), Log("All checks passed")>>)
    /\ UNCHANGED <<script, cfg, locals, probes, envVars, prevVars>>

---------------------------------------------------------------------------
(* The health check, scripts/health-check.js *)

\* checkBuildOutput, lines 9-15
HealthBegin ==
    /\ script = "health" /\ pc = "healthCheck"
    /\ ReadDist
    /\ Probe(<<Call("existsSync", <<distPath>>, FALSE, dist'.kind # "absent")>>)
    /\ IF dist'.kind = "absent"
         THEN /\ Exit(1, <<Log("Checking build output"),
                           Error("Build output directory does not exist")>>)
              /\ i' = i
         ELSE /\ Emit(<<Log("Checking build output")>>)
              /\ i' = 1
              /\ Goto("healthEssentialLoop")
    /\ UNCHANGED <<script, cfg, files, totalSize, fileCount, prevVars>>

\* HealthEssentialFile without the process.exit(1)
HealthEssentialFile_NoExit ==
    /\ pc = "healthEssentialLoop" /\ i <= Len(essentialFiles)
    /\ LET file == essentialFiles[i] IN
         /\ Probe(<<Call("existsSync", <<distPath>> \o file.parts, file.slash,
                         PathExists(dist, file))>>)
         /\ Emit(IF ~PathExists(dist, file)
                   THEN <<ErrorName("Essential file missing", file.text)>> ELSE <<>>)
         /\ i' = i + 1
         /\ Goto("healthEssentialLoop")
    /\ UNCHANGED <<script, cfg, files, totalSize, fileCount, envVars, prevVars>>

\* one turn of the loop over essentialFiles, lines 24-30
HealthEssentialFile ==
    /\ pc = "healthEssentialLoop" /\ i <= Len(essentialFiles)
    /\ LET file == essentialFiles[i] IN
         /\ Probe(<<Call("existsSync", <<distPath>> \o file.parts, file.slash,
                      PathExists(dist, file))>>)
         /\ IF ~PathExists(dist, file)
              THEN /\ Exit(1, <<ErrorName("Essential file missing", file.text)>>)
                   /\ i' = i
              ELSE /\ i' = i + 1
                   /\ Emit(<<>>)
                   /\ Goto("healthEssentialLoop")
    /\ UNCHANGED <<script, cfg, files, totalSize, fileCount, envVars, prevVars>>

\* lines 33-34; an exception nobody catches ends the process with status 1
HealthReadDir ==
    /\ pc = "healthEssentialLoop" /\ i > Len(essentialFiles)
    /\ Probe(<<Call("readdirSync", <<distPath>>, FALSE, dist.kind = "dir")>>)
    /\ IF dist.kind # "dir"
         THEN /\ Exit(1, <<Error("Uncaught exception")>>)
              /\ UNCHANGED locals
         ELSE /\ files' = Listing(dist)
              /\ totalSize' = 0
              /\ i' = 1
              /\ Emit(<<>>)
              /\ Goto("healthStatLoop")
              /\ UNCHANGED fileCount
    /\ UNCHANGED <<script, cfg, envVars, prevVars>>

\* one turn of the loop of lines 36-42
HealthStatEntry ==
    /\ pc = "healthStatLoop" /\ i <= Len(files)
    /\ LET file == files[i]
           stats == dist.entries[file]
       IN  /\ Probe(<<Call("statSync", <<distPath, file>>, FALSE, stats.kind # "dangling")>>)
           /\ IF stats.kind = "dangling"
                THEN /\ Exit(1, <<Error("Uncaught exception")>>)
                     /\ UNCHANGED <<i, totalSize>>
                ELSE /\ totalSize' = IF IsFile(stats) THEN totalSize + stats.size
                                                      ELSE totalSize
                     /\ i' = i + 1
                     /\ Emit(<<>>)
                     /\ Goto("healthStatLoop")
    /\ UNCHANGED <<script, cfg, files, fileCount, envVars, prevVars>>

\* HealthReport with a total below 1024 bytes ending the run with status 1
HealthReport_SmallFatal ==
    /\ pc = "healthStatLoop" /\ i > Len(files)
    /\ LET report == <<Log("Build output verified"),
                       LogNum("Total files", Len(files)),
                       LogNum("Total size MB", ToFixed2MB(totalSize))>>
       IN  IF totalSize < healthMinSize
             THEN Exit(1, report \o <<Error("Build output seems too small")>>)
             ELSE Exit(0, report \o <<Log("Health check passed")>>)
    /\ UNCHANGED <<script, cfg, locals, probes, envVars, prevVars>>

\* lines 44-52, and the script running out: status 0
HealthReport ==
    /\ pc = "healthStatLoop" /\ i > Len(files)
    /\ Exit(0, <<Log("Build output verified"),
                 LogNum("Total files", Len(files)),
                 LogNum("Total size MB", ToFixed2MB(totalSize))>>
               \o (IF totalSize < healthMinSize
                     THEN <<Warn("Build output seems too small")>> ELSE <<>>)
               \o <<Log("Health check passed")>>)
    /\ UNCHANGED <<script, cfg, locals, probes, envVars, prevVars>>

---------------------------------------------------------------------------
(* The specifications *)

\* where a script starts
Entry(s) == IF s = "deploy" THEN "main" ELSE "healthCheck"

Init ==
    /\ script \in Scripts
    /\ cfg = config
    /\ pc = Entry(script)
    /\ i = 0
    /\ files = <<>>
    /\ totalSize = 0
    /\ fileCount = 0
    /\ out = <<>>
    /\ probes = <<>>
    /\ exitCode = -1
    /\ known = {}
    /\ nodeMajor = 0
    /\ present = {}
    /\ pkg = Unparsable
    /\ dist = [kind |-> "absent", entries |-> NoEntries]
    /\ runs = 1
    /\ prevScript = ""
    /\ prevOut = <<>>
    /\ prevExit = -1

Deploy ==
    \/ MainStart
    \/ CheckEnvironment
    \/ CheckRequiredFilesBegin
    \/ CheckRequiredFile
    \/ CheckRequiredFilesEnd
    \/ CheckDependenciesBegin
    \/ CheckDependency
    \/ CheckDependenciesEnd
    \/ CheckBuildOutputBegin
    \/ ReadDir
    \/ StatEntry
    \/ CheckSizeBounds
    \/ CheckEssentialBuildFile
    \/ MainEnd

Health ==
    \/ HealthBegin
    \/ HealthEssentialFile
    \/ HealthReadDir
    \/ HealthStatEntry
    \/ HealthReport

Next == Deploy \/ Health

Spec == Init /\ [][Next]_vars

\* a run is one process executing synchronous code on its only thread: as
\* long as a statement is left to execute, the process executes it
SpecFair == Spec /\ WF_vars(Next)

\* the same script run a second time on the same tree, after the first run
\* has ended
Rerun ==
    /\ pc = "exited" /\ runs = 1
    /\ runs' = runs + 1
    /\ prevScript' = script
    /\ prevOut' = out
    /\ prevExit' = exitCode
    /\ script' = script
    /\ cfg' = config
    /\ pc' = Entry(script')
    /\ i' = 0
    /\ files' = <<>>
    /\ totalSize' = 0
    /\ fileCount' = 0
    /\ out' = <<>>
    /\ probes' = <<>>
    /\ exitCode' = -1
    /\ UNCHANGED envVars

NextRerun == Next \/ Rerun

SpecRerun == Init /\ [][NextRerun]_vars

\* the health check run on the same tree after a run of the deployment
\* checker that looked at the output directory has ended
HealthAfterDeploy ==
    /\ script = "deploy" /\ pc = "exited" /\ runs = 1
    /\ "dist" \in known
    /\ runs' = runs + 1
    /\ prevScript' = script
    /\ prevOut' = out
    /\ prevExit' = exitCode
    /\ script' = "health"
    /\ cfg' = config
    /\ pc' = Entry(script')
    /\ i' = 0
    /\ files' = <<>>
    /\ totalSize' = 0
    /\ fileCount' = 0
    /\ out' = <<>>
    /\ probes' = <<>>
    /\ exitCode' = -1
    /\ UNCHANGED envVars

NextBoth == Next \/ HealthAfterDeploy

SpecBoth == Init /\ [][NextBoth]_vars

---------------------------------------------------------------------------
(* What the claims speak of *)

\* the process has ended
Done == pc = "exited"

Printed(line) == \E k \in 1..Len(out) : out[k] = line

PrintedText(text) == \E k \in 1..Len(out) : out[k].text = text

LastLine == out[Len(out)]

\* the run has looked at the output directory, and it is a directory
DistIsDir == "dist" \in known /\ dist.kind = "dir"

\* the immediate entries that are regular files, and their bytes
RegularFiles(d) == {n \in EntryNames : d.entries[n].kind = "file"}

RECURSIVE SumSizes(_, _)
SumSizes(d, names) ==
    IF names = {} THEN 0
    ELSE LET n == CHOOSE x \in names : TRUE
         IN  d.entries[n].size + SumSizes(d, names \ {n})

RegularBytes(d) == SumSizes(d, RegularFiles(d))

\* every immediate entry can be stat-ed
CanStatAll(d) == \A n \in EntryNames : d.entries[n].kind # "dangling"

\* the essential entries (index.html, assets) the directory lacks
Lacking(d) == {f \in Range(essentialBuildFiles) : ~EntryExists(d.entries[f])}

FirstLacking(d) ==
    essentialBuildFiles[CHOOSE k \in 1..Len(essentialBuildFiles) :
        /\ essentialBuildFiles[k] \in Lacking(d)
        /\ \A j \in 1..(k - 1) : essentialBuildFiles[j] \notin Lacking(d)]

\* the missing-essential-entry error of either script, naming entry f
EssentialErrors(f) ==
    {ErrorName("Essential build file missing", f)} \cup
    {ErrorName("Essential file missing", essentialFiles[k].text) :
        k \in {j \in 1..Len(essentialFiles) : essentialFiles[j].parts = <<f>>}}

EssentialErrorPrinted == \E f \in Range(essentialBuildFiles) : \E l \in EssentialErrors(f) : Printed(l)

TooSmallError(n) == ErrorNum("Build output too small", n)

---------------------------------------------------------------------------
(* C1 *)

\* C1 as stated: whenever the output directory lacks index.html or assets,
\* whatever its measured size (its entries can be stat-ed, so that it has
\* one), the run ends with a non-zero status and has printed the
\* missing-essential-entry error naming a lacking entry.
C1_Original ==
    (Done /\ DistIsDir /\ CanStatAll(dist) /\ Lacking(dist) # {}) =>
        /\ exitCode # 0
        /\ \E f \in Lacking(dist) : \E l \in EssentialErrors(f) : Printed(l)

\* C1 amended: a run that has reached an output directory lacking index.html
\* or assets ends with status 1.  The health check, which tests the essential
\* entries first, ends with the missing-essential-entry error naming the first
\* lacking entry.  The deployment checker measures first: it ends with that
\* error only when every entry can be stat-ed and the measured size is at
\* least the minimum; below the minimum it ends with the too-small error, and
\* when an entry cannot be stat-ed with "Deployment check failed", in both
\* cases without testing or reporting the essential entries.
C1_Amended ==
    (Done /\ DistIsDir /\ Lacking(dist) # {}) =>
        /\ exitCode = 1
        /\ script = "health" =>
             /\ LastLine \in EssentialErrors(FirstLacking(dist))
             /\ LastLine.text = "Essential file missing"
        /\ script = "deploy" =>
             IF ~CanStatAll(dist)
               THEN LastLine = Error("Deployment check failed") /\ ~EssentialErrorPrinted
             ELSE IF RegularBytes(dist) < minBuildSize
               THEN LastLine = TooSmallError(RegularBytes(dist)) /\ ~EssentialErrorPrinted
             ELSE LastLine = ErrorName("Essential build file missing", FirstLacking(dist))

\* a deployment check that ended on a large enough directory without assets
C1_Witness ==
    /\ Done /\ script = "deploy" /\ DistIsDir
    /\ Lacking(dist) = {"assets"}
    /\ RegularBytes(dist) >= minBuildSize
    /\ exitCode = 1
    /\ LastLine = ErrorName("Essential build file missing", "assets")

---------------------------------------------------------------------------
(* C2 *)

\* the run has measured the output directory and printed its size
SizePrinted == PrintedText("Size MB") \/ PrintedText("Total size MB")

C2_HealthPasses ==
    /\ Done /\ script = "health" /\ DistIsDir
    /\ RegularBytes(dist) = minBuildSize - 1
    /\ exitCode = 0

---------------------------------------------------------------------------
(* C3 *)

\* C3: a deployment check whose earlier checks passed, on an output directory
\* that holds index.html and assets and whose measured size exceeds 50 MiB,
\* ends with status 0, having printed the size warning once and no error.
C3_LargeOnlyWarns ==
    (/\ Done /\ script = "deploy" /\ DistIsDir /\ CanStatAll(dist)
     /\ RegularBytes(dist) > maxBuildSize
     /\ Lacking(dist) = {}) =>
        /\ exitCode = 0
        /\ Cardinality({k \in 1..Len(out) : out[k].text = "Build output very large"}) = 1
        /\ Printed(WarnNum("Build output very large", ToFixed2MB(RegularBytes(dist))))
        /\ \A k \in 1..Len(out) : out[k].level # "error"
        /\ LastLine = Log("All checks passed")

\* a deployment check that ended on a directory of more than 50 MiB that
\* holds both essential entries
C3_Witness ==
    /\ Done /\ script = "deploy" /\ DistIsDir /\ CanStatAll(dist)
    /\ RegularBytes(dist) > maxBuildSize
    /\ Lacking(dist) = {}
    /\ exitCode = 0
    /\ \E k \in 1..Len(out) : out[k].level = "warn" /\ out[k].text = "Build output very large"

---------------------------------------------------------------------------
(* C4 *)

\* every essential entry of the script that runs is present
EssentialsPresent ==
    IF script = "deploy"
      THEN Lacking(dist) = {}
      ELSE \A k \in 1..Len(essentialFiles) : PathExists(dist, essentialFiles[k])

\* the file count a run has reported
ReportedCount(n) == Printed(LogNum("Files", n)) \/ Printed(LogNum("Total files", n))

\* the total size a run has reported: the measured bytes, printed in MiB
\* with two decimals
ReportedSize(n) ==
    /\ totalSize = n
    /\ Printed(LogNum("Size MB", ToFixed2MB(n))) \/ Printed(LogNum("Total size MB", ToFixed2MB(n)))

\* C4 as stated: on an output directory that holds exactly one regular file,
\* of N >= 1024 bytes, and every essential entry, a run that reaches the
\* directory reports a file count of 1 and a total size of N and ends with
\* status 0.
C4_Claim ==
    (/\ Done /\ DistIsDir /\ CanStatAll(dist)
     /\ Cardinality(RegularFiles(dist)) = 1
     /\ RegularBytes(dist) >= minBuildSize
     /\ EssentialsPresent) =>
        /\ exitCode = 0
        /\ ReportedCount(1)
        /\ ReportedSize(RegularBytes(dist))

---------------------------------------------------------------------------
(* C5 *)

\* the existence tests made on required files, in the order made
RequiredFileProbes ==
    SelectSeq(probes, LAMBDA c :
        c.op = "existsSync" /\ Len(c.path) = 1 /\ c.path[1] \in Range(requiredFiles))

MissingFiles == Range(requiredFiles) \ present

FirstMissing ==
    CHOOSE k \in 1..Len(requiredFiles) :
        /\ requiredFiles[k] \in MissingFiles
        /\ \A j \in 1..(k - 1) : requiredFiles[j] \notin MissingFiles

\* C5: checkRequiredFiles tests the required files in list order; when one is
\* absent, no file after the first absent one is ever tested, no other file
\* is named in an error, and the run ends with status 1 on the error naming
\* the first absent file, having made no other filesystem call.
C5_FailsAtFirstMissing ==
    script = "deploy" =>
        /\ Len(RequiredFileProbes) <= Len(requiredFiles)
        /\ \A k \in 1..Len(RequiredFileProbes) :
             RequiredFileProbes[k].path = <<requiredFiles[k]>>
        /\ ("project" \in known /\ MissingFiles # {}) =>
             /\ Len(RequiredFileProbes) <= FirstMissing
             /\ \A k \in 1..Len(out) :
                  out[k].text = "Required file missing" =>
                      out[k].name = requiredFiles[FirstMissing]
             /\ pc \in {"requiredFilesLoop", "exited"}
             /\ Done =>
                  /\ exitCode = 1
                  /\ LastLine = ErrorName("Required file missing", requiredFiles[FirstMissing])
                  /\ probes = RequiredFileProbes
                  /\ Len(probes) = FirstMissing

\* a run that ended at docs/README.md, the second file, with pnpm-lock.yaml,
\* the fourth, absent too
C5_Witness ==
    /\ Done /\ script = "deploy"
    /\ present = {"docs/.vuepress/config.js", "package.json"}
    /\ Len(probes) = 2
    /\ exitCode = 1
    /\ LastLine = ErrorName("Required file missing", "docs/README.md")

---------------------------------------------------------------------------
(* C6 *)

AllRequiredPresent == "project" \in known /\ MissingFiles = {}

\* package.json parses and gives every required package a non-empty entry
\* under devDependencies
AllDepsDeclared ==
    /\ "package" \in known
    /\ pkg.parses
    /\ \A d \in Range(requiredDeps) : ~Falsy(pkg.devDependencies[d])

\* the conditions C6 lists.  A part of the tree the run never read counts as
\* failing: the run reads the parts in order and skips one only after a check
\* before it has failed.
C6_Listed ==
    /\ AllRequiredPresent
    /\ AllDepsDeclared
    /\ DistIsDir
    /\ RegularBytes(dist) >= minBuildSize
    /\ Lacking(dist) = {}

\* C6 as stated: the deployment checker ends with status 0, and has printed
\* "All checks passed", exactly when every required file exists, every
\* required dependency is declared, the output directory exists, its regular
\* files sum to at least the minimum and every essential entry exists.
C6_Original ==
    (Done /\ script = "deploy") =>
        /\ exitCode = 0 <=> C6_Listed
        /\ PrintedText("All checks passed") <=> C6_Listed

\* C6 amended: the deployment checker ends with status 0 exactly when every
\* required file exists, package.json parses and gives every required
\* dependency a non-empty devDependencies entry, the output path is a
\* directory every immediate entry of which can be stat-ed, its regular files
\* sum to at least the minimum and index.html and assets exist; "All checks
\* passed" is printed in exactly those runs, as their last line.
C6_Amended ==
    script = "deploy" =>
        /\ Done => (exitCode = 0 <=> (C6_Listed /\ CanStatAll(dist)))
        /\ Done => exitCode \in {0, 1}
        /\ PrintedText("All checks passed") <=> (Done /\ exitCode = 0)
        /\ PrintedText("All checks passed") => LastLine = Log("All checks passed")

\* a deployment check that passed
C6_Witness ==
    /\ Done /\ script = "deploy" /\ exitCode = 0
    /\ C6_Listed
    /\ LastLine = Log("All checks passed")

\* a deployment check that failed only because an entry could not be stat-ed
C6_StatFailure ==
    /\ Done /\ script = "deploy" /\ exitCode = 1
    /\ C6_Listed /\ ~CanStatAll(dist)

---------------------------------------------------------------------------
(* C7 *)

\* an existence test has answered no: a missing file, output directory or
\* essential entry has been detected
MissingDetected == \E k \in 1..Len(probes) : probes[k].op = "existsSync" /\ ~probes[k].ok

\* a call has thrown, or package.json could not be read
CallFailed == \E k \in 1..Len(probes) : probes[k].op # "existsSync" /\ ~probes[k].ok

ErrorPrinted == \E k \in 1..Len(out) : out[k].level = "error"

\* the run has measured a total below the minimum and compared the two
TooSmallDetected ==
    \/ script = "deploy" /\ PrintedText("Build statistics") /\ totalSize < minBuildSize
    \/ script = "health" /\ PrintedText("Total size MB") /\ totalSize < healthMinSize

SuccessPrinted == PrintedText("All checks passed") \/ PrintedText("Health check passed")

\* the warnings a run may print
Advisory == {"Build output very large", "Node.js 20+ recommended", "Build output seems too small"}

---------------------------------------------------------------------------
(* C8 *)

\* the filesystem calls of a complete run of a script, in the order of its
\* checks
Checklist ==
    IF script = "deploy"
      THEN [k \in 1..Len(requiredFiles) |-> <<"existsSync", <<requiredFiles[k]>>, FALSE>>]
           \o <<<<"readFileSync", <<"package.json">>, FALSE>>,
                <<"existsSync", <<buildOutput>>, FALSE>>,
                <<"readdirSync", <<buildOutput>>, FALSE>>>>
           \o [k \in 1..Len(Listing(dist)) |-> <<"statSync", <<buildOutput, Listing(dist)[k]>>, FALSE>>]
           \o [k \in 1..Len(essentialBuildFiles) |->
                 <<"existsSync", <<buildOutput, essentialBuildFiles[k]>>, FALSE>>]
      ELSE <<<<"existsSync", <<distPath>>, FALSE>>>>
           \o [k \in 1..Len(essentialFiles) |->
                 <<"existsSync", <<distPath>> \o essentialFiles[k].parts, essentialFiles[k].slash>>]
           \o <<<<"readdirSync", <<distPath>>, FALSE>>>>
           \o [k \in 1..Len(Listing(dist)) |-> <<"statSync", <<distPath, Listing(dist)[k]>>, FALSE>>]

\* C8: the filesystem calls of a run are an initial part of the script's
\* checklist, in its order; the first call that fails (an existence test
\* answering no, a call that throws) is the last call of the run, and the
\* first error printed is its last line, printed as the run ends with
\* status 1: nothing of a later check follows a fatal failure.
C8_FixedOrderShortCircuit ==
    /\ Len(probes) <= Len(Checklist)
    /\ \A k \in 1..Len(probes) :
         <<probes[k].op, probes[k].path, probes[k].slash>> = Checklist[k]
    /\ \A k \in 1..Len(probes) : ~probes[k].ok => (k = Len(probes) /\ Done /\ exitCode = 1)
    /\ \A k \in 1..Len(out) :
         out[k].level = "error" => (k = Len(out) /\ Done /\ exitCode = 1)

\* a deployment check that ended in checkDependencies, before it looked at
\* the output directory
C8_Witness ==
    /\ Done /\ script = "deploy" /\ exitCode = 1
    /\ "package" \in known /\ "dist" \notin known
    /\ Len(probes) = Len(requiredFiles) + 1
    /\ LastLine.text = "Required dependency missing"

---------------------------------------------------------------------------
(* C9, under SpecRerun *)

\* C9 as stated: the second run on the unchanged tree ends with the exit
\* status of the first and has printed the same lines.
C9_Original ==
    (runs = 2 /\ Done) => (exitCode = prevExit /\ out = prevOut)

\* C9 amended: the second run of a script on the unchanged tree, under the
\* same Node version, ends with the exit status of the first and prints the
\* same lines in the same order, except that the number in the "Memory
\* usage" line of the deployment checker may differ.
C9_Amended ==
    (runs = 2 /\ Done) =>
        /\ exitCode = prevExit
        /\ Len(out) = Len(prevOut)
        /\ \A k \in 1..Len(out) :
             \/ out[k] = prevOut[k]
             \/ /\ script = "deploy"
                /\ out[k].text = "Memory usage MB"
                /\ prevOut[k].text = "Memory usage MB"
                /\ out[k].level = prevOut[k].level

\* a second deployment check that passed, as the first did, with another
\* number in the memory line
C9_Witness ==
    /\ runs = 2 /\ Done /\ script = "deploy" /\ prevScript = "deploy"
    /\ exitCode = 0 /\ prevExit = 0
    /\ out # prevOut

---------------------------------------------------------------------------
(* C10 *)

\* C10 as stated: a run that reports its measurement reports, as the total
\* size, the bytes of the immediate entries that are regular files and, as
\* the file count, the number of those files; subdirectories add to neither.
C10_Claim ==
    (Done /\ DistIsDir /\ SizePrinted) =>
        /\ ReportedSize(RegularBytes(dist))
        /\ ReportedCount(Cardinality(RegularFiles(dist)))

\* what holds of the deployment checker
C10_DeployShallow ==
    (script = "deploy" /\ DistIsDir /\ SizePrinted) =>
        /\ ReportedSize(RegularBytes(dist))
        /\ ReportedCount(Cardinality(RegularFiles(dist)))
        /\ fileCount = Cardinality(RegularFiles(dist))


---------------------------------------------------------------------------
(* C11 *)

\* the deployment checker has compared the measured total with the bounds
SizeBoundsChecked == script = "deploy" /\ PrintedText("Build statistics")

\* the size-bound check has failed: the too-small error is printed
SizeCheckFailed == \E k \in 1..Len(out) :
    out[k].level = "error" /\ out[k].text = "Build output too small"

\* the size-bound check has warned
SizeCheckWarned == \E k \in 1..Len(out) : out[k].text = "Build output very large"

\* C11: once the deployment checker has compared the total with the bounds,
\* the too-small error is printed (and the run has ended with status 1 on
\* it) exactly when the total is below the minimum, the very-large warning
\* is printed exactly when the total is above the maximum, and never both;
\* so a total equal to the minimum passes and a total equal to the maximum
\* is not warned about.
C11_SizeBounds ==
    SizeBoundsChecked =>
        /\ SizeCheckFailed <=> totalSize < minBuildSize
        /\ SizeCheckFailed =>
              Done /\ exitCode = 1 /\ LastLine = TooSmallError(totalSize)
        /\ SizeCheckWarned <=> totalSize > maxBuildSize
        /\ SizeCheckWarned =>
              Printed(WarnNum("Build output very large", ToFixed2MB(totalSize)))
        /\ ~(SizeCheckFailed /\ SizeCheckWarned)

\* a total equal to the minimum has passed the size-bound check
C11_Witness ==
    /\ SizeBoundsChecked /\ totalSize = minBuildSize
    /\ ~SizeCheckFailed /\ ~SizeCheckWarned
    /\ Done /\ exitCode = 0

\* a total equal to the maximum has passed without a warning
C11_AtMaximum ==
    /\ SizeBoundsChecked /\ totalSize = maxBuildSize
    /\ ~SizeCheckFailed /\ ~SizeCheckWarned
    /\ Done /\ exitCode = 0


---------------------------------------------------------------------------
(* C12 *)

\* the run has asked whether the output directory exists
DistProbed == \E k \in 1..Len(probes) :
    probes[k].op = "existsSync" /\ probes[k].path = <<buildOutput>>

\* the missing-build-output error of the running script
NotFoundError ==
    IF script = "deploy"
      THEN ErrorName("Build output not found", buildOutput)
      ELSE Error("Build output directory does not exist")

\* C12: when a run of either script has asked for the output directory and
\* it does not exist, the run has ended with status 1, its last line is the
\* missing-build-output error, and the existence test is the only call it
\* has made on the directory: no listing, no stat, no essential-entry test.
C12_MissingOutputFirst ==
    (DistProbed /\ dist.kind = "absent") =>
        /\ Done /\ exitCode = 1
        /\ LastLine = NotFoundError
        /\ \A k \in 1..Len(probes) :
              /\ probes[k].op \notin {"readdirSync", "statSync"}
              /\ probes[k].path[1] = buildOutput =>
                    /\ k = Len(probes)
                    /\ probes[k] = Call("existsSync", <<buildOutput>>, FALSE, FALSE)

\* the deployment checker has ended on a missing output directory
C12_Witness ==
    /\ script = "deploy" /\ DistProbed /\ dist.kind = "absent"
    /\ Done /\ Printed(NotFoundError)

\* the health check has ended on a missing output directory
C12_HealthWitness ==
    /\ script = "health" /\ DistProbed /\ dist.kind = "absent"
    /\ Done /\ Printed(NotFoundError)


---------------------------------------------------------------------------
(* C13 *)

LastCall == probes[Len(probes)]

\* the error line names the check that failed in this run
IdentifiesFailure(line) ==
    CASE line.text = "Required file missing" ->
           /\ line.name \in Range(requiredFiles)
           /\ LastCall = Call("existsSync", <<line.name>>, FALSE, FALSE)
      [] line.text = "Error reading package.json" ->
           LastCall = Call("readFileSync", <<"package.json">>, FALSE, FALSE)
      [] line.text = "Required dependency missing" ->
           /\ line.name \in Range(requiredDeps)
           /\ Falsy(pkg.devDependencies[line.name])
      [] line.text \in {"Build output not found",
                        "Build output directory does not exist"} ->
           LastCall = Call("existsSync", <<buildOutput>>, FALSE, FALSE)
      [] line.text = "Build output too small" ->
           line.num = totalSize /\ totalSize < minBuildSize
      [] line.text = "Essential build file missing" ->
           /\ line.name \in Range(essentialBuildFiles)
           /\ LastCall = Call("existsSync", <<buildOutput, line.name>>, FALSE, FALSE)
      [] line.text = "Essential file missing" ->
           \E k \in 1..Len(essentialFiles) :
              /\ line.name = essentialFiles[k].text
              /\ LastCall = Call("existsSync", <<distPath>> \o essentialFiles[k].parts,
                                 essentialFiles[k].slash, FALSE)
      [] line.text \in {"Deployment check failed", "Uncaught exception"} ->
           LastCall.op \in {"readdirSync", "statSync"} /\ ~LastCall.ok
      [] OTHER -> FALSE

\* C13: a run that has ended with a non-zero status has printed an error
\* line, it is the last line printed, and it names the check that failed.
C13_NoSilentFailure ==
    (Done /\ exitCode # 0) =>
        /\ Len(out) > 0
        /\ LastLine.level = "error"
        /\ IdentifiesFailure(LastLine)

\* the deployment checker has ended on a required dependency that
\* package.json does not declare, after the error naming it
C13_Witness ==
    /\ script = "deploy" /\ Done /\ exitCode = 1
    /\ LastLine.text = "Required dependency missing"


---------------------------------------------------------------------------
(* C14 *)

\* a step leaves every part of the filesystem that a run has read as it
\* was: which required files exist, the content of package.json, the
\* entries of the output directory with their kinds and sizes
FilesystemUnchanged ==
    /\ known \subseteq known'
    /\ "project" \in known => present' = present
    /\ "package" \in known => pkg' = pkg
    /\ "dist" \in known => dist' = dist

\* C14: no step of a run of either script changes the filesystem: the files
\* and directories a run has seen, and their sizes, stay as they were up to
\* the end of the run, whichever check it ends at.
C14_ReadOnly == [][FilesystemUnchanged]_vars

\* a run has read the project files, package.json and the output directory
\* and has ended
C14_Witness ==
    /\ Done /\ {"project", "package", "dist"} \subseteq known
    /\ DistIsDir /\ Len(probes) > Len(requiredFiles) + 3


---------------------------------------------------------------------------
(* C15 *)

\* C15: in every state of a run the configuration object holds the values
\* of its literal: the required-file list, the build-output path, the
\* minimum and the maximum size are never assigned to or mutated.
C15_ConfigImmutable == cfg = config

\* the deployment checker has used the required-file list, the output path
\* and both size bounds, and has ended
C15_Witness ==
    /\ script = "deploy" /\ Done /\ SizeBoundsChecked
    /\ Len(probes) > Len(cfg.requiredFiles) + 3
    /\ cfg.minBuildSize = 1024 /\ cfg.maxBuildSize = 52428800


---------------------------------------------------------------------------
(* C16 *)

\* how many of the lines printed so far carry this text
Count(text) == Cardinality({k \in 1..Len(out) : out[k].text = text})

\* how many of the lines printed so far report on this dependency
DepTests(dep) == Cardinality({k \in 1..Len(out) :
    /\ out[k].text \in {"Found dependency", "Required dependency missing"}
    /\ out[k].name = dep})

\* the first line each check function prints when it is entered
Headers ==
    {"Starting deployment checks", "Checking environment",
     "Checking required files", "Checking dependencies", "Checking build output"}

\* C16: within one run no filesystem call is made twice on the same path
\* (so each required file, the output directory and each essential entry is
\* tested for presence at most once, and each entry is stat-ed at most
\* once), each required dependency is looked up at most once, and each check
\* function is entered at most once.
C16_NoRetry ==
    /\ \A j, k \in 1..Len(probes) :
          (/\ probes[j].op = probes[k].op
           /\ probes[j].path = probes[k].path
           /\ probes[j].slash = probes[k].slash) => j = k
    /\ \A dep \in Range(requiredDeps) : DepTests(dep) <= 1
    /\ \A h \in Headers : Count(h) <= 1

\* the deployment checker has run through every check once
C16_Witness ==
    /\ script = "deploy" /\ Done /\ exitCode = 0
    /\ \A h \in Headers : Count(h) = 1
    /\ \A dep \in Range(requiredDeps) : DepTests(dep) = 1
    /\ Len(probes) = Len(requiredFiles) + 3 + Len(files) + Len(essentialBuildFiles)


---------------------------------------------------------------------------
(* C17 *)

\* C17: every run of either script ends: it reaches process exit, with
\* status 0 or a non-zero status, whatever the required files, package.json
\* and the listing of the output directory are; no run loops or waits for
\* ever.
C17_Terminates == <>(Done /\ exitCode \in {0, 1})

\* a run has ended after going through the longest listing
C17_Witness ==
    /\ Done /\ exitCode = 0
    /\ Len(files) = Cardinality(EntryNames)
    /\ Len(probes) >= 1 + Len(files)

\* a state that is not the end of a run has a next step
C17_NeverStuck == Done \/ ENABLED Next


---------------------------------------------------------------------------
(* C18 *)

\* the Node-version warning of checkEnvironment
VersionWarning == Warn("Node.js 20+ recommended")

\* C18 as stated: once the environment check of the deployment checker has
\* run, the Node-version warning is printed exactly when the major version
\* of the running Node is below 20; for version 20 and every later major
\* version there is no warning.
C18_Claim ==
    (script = "deploy" /\ PrintedText("Environment check passed")) =>
        (Printed(VersionWarning) <=> nodeMajor < 20)

\* what the code does: the warning is printed exactly when the version
\* string does not start with "v20"
C18_WarnsUnlessV20 ==
    (script = "deploy" /\ PrintedText("Environment check passed")) =>
        (Printed(VersionWarning) <=> ~StartsWithV20(nodeMajor))

\* Node 22 has been warned about
C18_WarnedOn22 ==
    /\ script = "deploy" /\ PrintedText("Environment check passed")
    /\ nodeMajor = 22 /\ Printed(VersionWarning)


---------------------------------------------------------------------------
(* C19 *)

\* the run has tested an essential entry of the output directory
EssentialProbed == \E k \in 1..Len(probes) :
    probes[k].op = "existsSync" /\ Len(probes[k].path) > 1

\* the deployment checker looks at an output directory whose measured size
\* (every entry can be stat-ed) is below the minimum and that lacks an
\* essential entry
SmallAndLacking ==
    /\ script = "deploy" /\ DistProbed /\ DistIsDir /\ CanStatAll(dist)
    /\ RegularBytes(dist) < minBuildSize
    /\ Lacking(dist) # {}

\* C19: in the deployment checker the minimum-size check comes before the
\* essential-entry check: on an output directory that measures below the
\* minimum and lacks an essential entry, no essential entry is ever tested
\* or reported missing, and the run ends with status 1 on the too-small
\* error.
C19_MinBeforeEssentials ==
    SmallAndLacking =>
        /\ ~EssentialProbed
        /\ ~EssentialErrorPrinted
        /\ Done => exitCode = 1 /\ LastLine = TooSmallError(RegularBytes(dist))

\* the run on such a directory has ended on the too-small error
C19_Witness ==
    /\ SmallAndLacking /\ Done
    /\ Printed(TooSmallError(RegularBytes(dist)))

---------------------------------------------------------------------------
(* C20 *)

\* the deployment checker looks at an output directory whose measured size
\* (every entry can be stat-ed) is above the maximum and that lacks an
\* essential entry
LargeAndLacking ==
    /\ script = "deploy" /\ DistProbed /\ DistIsDir /\ CanStatAll(dist)
    /\ RegularBytes(dist) > maxBuildSize
    /\ Lacking(dist) # {}

\* C20: the max-size warning does not end checkBuildOutput: a run of the
\* deployment checker on an output directory that measures above the
\* maximum and lacks index.html or assets has, when it ends, printed the
\* warning, tested the first lacking essential entry, and ended with
\* status 1 on the error naming it.
C20_WarningGoesOn ==
    (LargeAndLacking /\ Done) =>
        /\ exitCode = 1
        /\ SizeCheckWarned
        /\ \E k \in 1..Len(probes) :
              probes[k] = Call("existsSync", <<buildOutput, FirstLacking(dist)>>,
                               FALSE, FALSE)
        /\ LastLine = ErrorName("Essential build file missing", FirstLacking(dist))

\* the run on such a directory has ended after the warning and the error
C20_Witness ==
    /\ LargeAndLacking /\ Done /\ exitCode = 1
    /\ SizeCheckWarned /\ EssentialErrorPrinted


---------------------------------------------------------------------------
(* C21 *)

\* the first line of each check function of the deployment checker, in the
\* order claimed, and the last line of each
CheckHeaders ==
    <<"Checking environment", "Checking required files",
      "Checking dependencies", "Checking build output">>

CheckFooters ==
    <<"Environment check passed", "All required files present",
      "Dependencies check passed", "Build output verified">>

\* where a text was first printed
FirstAt(text) == CHOOSE k \in 1..Len(out) :
    out[k].text = text /\ \A j \in 1..(k - 1) : out[j].text # text

\* the run has made a call on the output directory or on a path inside it
DistQueried == \E k \in 1..Len(probes) : probes[k].path[1] = buildOutput

\* C21: in the deployment checker a check is entered only after the check
\* before it, in the order environment, required files, dependencies, build
\* output, has run to its end; in a run where a required file is absent, or
\* package.json does not declare a required dependency, no call is ever
\* made on the output directory; and a run never ends in the environment
\* check: whatever the Node version, the required-files check is entered.
C21_CheckOrder ==
    script = "deploy" =>
        /\ \A b \in 2..Len(CheckHeaders) :
              PrintedText(CheckHeaders[b]) =>
                  /\ PrintedText(CheckHeaders[b - 1])
                  /\ PrintedText(CheckFooters[b - 1])
                  /\ FirstAt(CheckHeaders[b - 1]) < FirstAt(CheckFooters[b - 1])
                  /\ FirstAt(CheckFooters[b - 1]) < FirstAt(CheckHeaders[b])
        /\ (\/ "project" \in known /\ MissingFiles # {}
            \/ "package" \in known /\ ~AllDepsDeclared) =>
              ~DistQueried
        /\ PrintedText(CheckHeaders[1]) =>
              /\ PrintedText(CheckFooters[1])
              /\ pc # "exited" \/ PrintedText(CheckHeaders[2])

\* a run under Node 18 was warned by the environment check, went on, and
\* ended in checkDependencies without a call on the output directory
C21_Witness ==
    /\ script = "deploy" /\ Done /\ exitCode = 1
    /\ nodeMajor = 18 /\ Printed(VersionWarning)
    /\ AllRequiredPresent /\ "package" \in known /\ ~AllDepsDeclared
    /\ PrintedText(CheckHeaders[3]) /\ ~DistQueried

\* a run has entered all four checks
C21_AllEntered ==
    /\ script = "deploy"
    /\ \A b \in 1..Len(CheckHeaders) : PrintedText(CheckHeaders[b])


---------------------------------------------------------------------------
(* C22 *)

\* the deployment checker has entered checkDependencies / has left it, by
\* return or by process exit
DepsEntered == script = "deploy" /\ PrintedText("Checking dependencies")

DepsLeft == DepsEntered /\ pc # "dependenciesLoop"

\* checkDependencies has ended the run
DepsFatal ==
    /\ Done /\ exitCode = 1
    /\ LastLine.text \in {"Error reading package.json", "Required dependency missing"}

\* the required packages without an entry under devDependencies, and those
\* whose entry is missing or empty
NoEntry == {d \in Range(requiredDeps) : pkg.devDependencies[d] = "undefined"}

Undeclared == {d \in Range(requiredDeps) : Falsy(pkg.devDependencies[d])}

FirstUndeclared ==
    CHOOSE k \in 1..Len(requiredDeps) :
        /\ requiredDeps[k] \in Undeclared
        /\ \A j \in 1..(k - 1) : requiredDeps[j] \notin Undeclared

\* C22 as stated: checkDependencies ends the run exactly when package.json
\* cannot be read or parsed or one of the three required packages has no
\* entry under devDependencies.
C22_Original ==
    DepsLeft => (DepsFatal <=> (~pkg.parses \/ NoEntry # {}))

\* C22 amended: checkDependencies ends the run exactly when package.json
\* cannot be read or parsed or one of the three required packages has no
\* entry, or an empty one, under devDependencies; otherwise it prints
\* "Dependencies check passed".  It reports the packages in list order and
\* stops at the first such package: that one alone is named in an error,
\* only the packages before it are reported found.  An entry under
\* dependencies does not count.
C22_Amended ==
    DepsEntered =>
        /\ DepsLeft => (DepsFatal <=> (~pkg.parses \/ Undeclared # {}))
        /\ (DepsLeft /\ ~DepsFatal) => PrintedText("Dependencies check passed")
        /\ ~pkg.parses => LastLine = Error("Error reading package.json")
        /\ \A k \in 1..Len(out) :
              /\ out[k].text = "Required dependency missing" =>
                    /\ Undeclared # {}
                    /\ out[k].name = requiredDeps[FirstUndeclared]
                    /\ k = Len(out) /\ Done /\ exitCode = 1
              /\ (out[k].text = "Found dependency" /\ Undeclared # {}) =>
                    \E j \in 1..(FirstUndeclared - 1) : out[k].name = requiredDeps[j]
        /\ (DepsLeft /\ pkg.parses /\ Undeclared # {}) =>
              LastLine = ErrorName("Required dependency missing",
                                   requiredDeps[FirstUndeclared])

\* a run ended at the second package, declared under dependencies only,
\* with the third lacking too
C22_Witness ==
    /\ DepsLeft /\ DepsFatal /\ pkg.parses
    /\ FirstUndeclared = 2 /\ requiredDeps[3] \in Undeclared
    /\ ~Falsy(pkg.dependencies[requiredDeps[2]])
    /\ Printed(LogName("Found dependency", requiredDeps[1]))

\* a run ended at a package whose devDependencies entry is the empty string
C22_EmptyEntry ==
    /\ DepsLeft /\ DepsFatal /\ pkg.parses /\ NoEntry = {}


---------------------------------------------------------------------------
(* C23 *)

\* the calls of this run that threw: a listing of something that is no
\* directory, a stat of an entry that is not there
Thrown == {k \in 1..Len(probes) :
    probes[k].op \in {"readdirSync", "statSync"} /\ ~probes[k].ok}

\* C23: when readdirSync on the output directory or statSync on one of its
\* entries throws in a run of the deployment checker, that call is the last
\* the run makes: the run has ended with status 1, its last line is
\* "Deployment check failed", the only error it printed, and it has printed
\* neither the statistics nor a success line.
C23_ThrowIsFatal ==
    (script = "deploy" /\ Thrown # {}) =>
        /\ Thrown = {Len(probes)}
        /\ Done /\ exitCode = 1
        /\ LastLine = Error("Deployment check failed")
        /\ \A k \in 1..Len(out) : out[k].level = "error" => k = Len(out)
        /\ ~SuccessPrinted /\ ~PrintedText("Build output verified")
        /\ ~PrintedText("Build statistics")

\* a run ended on an entry that could not be stat-ed, after stat-ing another
C23_Witness ==
    /\ script = "deploy" /\ Done
    /\ probes[Len(probes)].op = "statSync" /\ Thrown = {Len(probes)}
    /\ \E k \in 1..Len(probes) : probes[k].op = "statSync" /\ probes[k].ok
    /\ Printed(Error("Deployment check failed"))

\* a run ended on a listing that threw: the output path is a regular file
C23_ListingThrows ==
    /\ script = "deploy" /\ Done
    /\ probes[Len(probes)].op = "readdirSync" /\ Thrown = {Len(probes)}
    /\ Printed(Error("Deployment check failed"))


---------------------------------------------------------------------------
(* C24 *)

\* what the health check asks of the output directory: it exists, the three
\* paths index.html, assets/ and .vuepress/dist/ exist inside it, and every
\* immediate entry can be stat-ed
HealthAccepts(d) ==
    /\ d.kind # "absent"
    /\ \A k \in 1..Len(essentialFiles) : PathExists(d, essentialFiles[k])
    /\ CanStatAll(d)

\* C24: a run of the health check that has ended has status 0 exactly when
\* the output directory exists, the three paths exist inside it and every
\* immediate entry can be stat-ed, whatever the measured total; it has
\* status 1 otherwise; "Health check passed" is printed, as the last line,
\* in exactly the runs that end with status 0.
C24_HealthExit ==
    script = "health" =>
        /\ Done => (exitCode = 0 <=> HealthAccepts(dist))
        /\ Done => exitCode \in {0, 1}
        /\ PrintedText("Health check passed") <=> (Done /\ exitCode = 0)
        /\ PrintedText("Health check passed") => LastLine = Log("Health check passed")

\* a health check passed a directory that measures below 1024 bytes
C24_Witness ==
    /\ script = "health" /\ Done /\ exitCode = 0
    /\ HealthAccepts(dist) /\ totalSize < healthMinSize
    /\ Printed(Warn("Build output seems too small"))
    /\ LastLine = Log("Health check passed")

\* a health check passed a directory above 50 MiB
C24_LargePasses ==
    /\ script = "health" /\ Done /\ exitCode = 0
    /\ totalSize > maxBuildSize

\* a health check failed on an entry that cannot be stat-ed
C24_StatFails ==
    /\ script = "health" /\ Done /\ exitCode = 1
    /\ dist.kind = "dir" /\ ~CanStatAll(dist)
    /\ \A k \in 1..Len(essentialFiles) : PathExists(dist, essentialFiles[k])


---------------------------------------------------------------------------
(* C25, under SpecBoth *)

\* both scripts have run on the same tree: the deployment checker, then the
\* health check
BothRan == runs = 2 /\ Done /\ prevScript = "deploy" /\ script = "health"

\* the exit status of the health check, the lines of the deployment checker
HealthExit == exitCode

DeployOut == prevOut

\* checkBuildOutput of the deployment checker was entered / has completed
\* without a fatal failure
DeployEnteredBuild == \E k \in 1..Len(DeployOut) :
    DeployOut[k].text = "Checking build output"

DeployCompletedBuild == \E k \in 1..Len(DeployOut) :
    DeployOut[k].text = "Build output verified"

\* C25 as stated: when both scripts have run on the same tree and the
\* deployment checker got as far as checkBuildOutput, the health check has
\* ended with status 0 exactly when checkBuildOutput of the deployment
\* checker has completed without a fatal failure.
C25_Claim ==
    (BothRan /\ DeployEnteredBuild) =>
        (HealthExit = 0 <=> DeployCompletedBuild)

\* what each script asks of the output directory
DeployAccepts(d) ==
    /\ d.kind = "dir" /\ CanStatAll(d)
    /\ RegularBytes(d) >= minBuildSize
    /\ Lacking(d) = {}

\* what the code does: each script accepts the directories its own
\* conditions describe
C25_EachItsOwn ==
    (BothRan /\ DeployEnteredBuild) =>
        /\ HealthExit = 0 <=> HealthAccepts(dist)
        /\ DeployCompletedBuild <=> DeployAccepts(dist)

\* the deployment checker accepted a directory the health check rejected:
\* a build with index.html and the directory assets, without .vuepress/dist/
\* inside the output directory
C25_DeployOnly ==
    /\ BothRan /\ DeployCompletedBuild /\ HealthExit = 1
    /\ dist.entries["index.html"].kind = "file"
    /\ dist.entries["assets"].kind = "dir"
    /\ dist.entries[".vuepress"].kind = "absent"
    /\ LastLine = ErrorName("Essential file missing", ".vuepress/dist/")

\* the health check accepted a directory the deployment checker rejected:
\* fewer than 1024 bytes
C25_HealthOnly ==
    /\ BothRan /\ DeployEnteredBuild /\ ~DeployCompletedBuild /\ HealthExit = 0
    /\ RegularBytes(dist) < minBuildSize

===========================================================================
